---- MODULE Spec2Model ----
(***************************************************************************)
(* SCO EdgeWise (src/sco_edgewise.py): the three measurement operators,    *)
(* the edit-mode update handler and the traversal loop of is_contiguous.   *)
(*                                                                         *)
(* Numbers.  Lengths are fixed-point integers in thousandths of a metre    *)
(* (a float length is truncated to three decimals); a displayed magnitude  *)
(* ("{x:.2f}") is an integer in hundredths; angles are hundredths of a     *)
(* degree.                                                                 *)
(***************************************************************************)
EXTENDS Integers, Sequences, FiniteSets, TLC

VARIABLES result, last_mode, op, ctx, ret, report, seen_empty, since_handler,
          edges, visited, stack, pc, contiguous

vars == <<result, last_mode, op, ctx, ret, report, seen_empty, since_handler,
          edges, visited, stack, pc, contiguous>>

propVars == <<result, last_mode, op, ctx, ret, report, seen_empty, since_handler>>
loopVars == <<edges, visited, stack, pc, contiguous>>

----------------------------------------------------------------------------
(* The edit mesh the operators read: bm.verts (v.co) and bm.edges          *)
(* (e.verts, as indices into bm.verts).  Vertices 3 and 4 are coincident   *)
(* but distinct, so edge <<3, 4>> has zero length, and edges <<2, 3>> and  *)
(* <<4, 5>> touch in space without sharing a vertex.                       *)

VertCo == << <<0, 0, 0>>, <<1, 0, 0>>, <<1, 1, 0>>, <<1, 1, 0>>, <<1, 1, 1>> >>

MeshVerts == 1..Len(VertCo)

MeshEdges == << <<1, 2>>, <<2, 3>>, <<3, 1>>, <<3, 4>>, <<4, 5>> >>

EdgeSet == {MeshEdges[i] : i \in 1..Len(MeshEdges)}

\* obj.matrix_world of the mesh object: a uniform scale.
MatrixWorld == 2

\* The largest number of vertices, or of edges, selected in one request.
MaxSelected == 3

Range(s) == {s[i] : i \in 1..Len(s)}

----------------------------------------------------------------------------
(* Arithmetic of the host's vectors and of Python's formatting.            *)

RECURSIVE Bisect(_, _, _)
Bisect(n, lo, hi) ==
    IF lo = hi THEN lo
    ELSE LET mid == (lo + hi + 1) \div 2
         IN  IF mid * mid <= n THEN Bisect(n, mid, hi) ELSE Bisect(n, lo, mid - 1)

\* floor(sqrt(n))
ISqrt(n) == Bisect(n, 0, 46340)

Sub(a, b) == <<a[1] - b[1], a[2] - b[2], a[3] - b[3]>>

Dot(a, b) == a[1] * b[1] + a[2] * b[2] + a[3] * b[3]

Abs(x) == IF x < 0 THEN -x ELSE x

\* floor(1000 * sqrt(d)) for the squared lengths the mesh can produce.
SqrtMilli == [d \in 0..48 |-> ISqrt(1000000 * d)]

\* Vector.length, in thousandths.
VecLength(v) == SqrtMilli[Dot(v, v)]

\* obj.matrix_world @ v.co: the mesh object is scaled uniformly by
\* MatrixWorld.
World(co) == <<MatrixWorld * co[1], MatrixWorld * co[2], MatrixWorld * co[3]>>

\* BMEdge.calc_length(): local coordinates, in thousandths.
calc_length(e) == VecLength(Sub(VertCo[e[2]], VertCo[e[1]]))

\* degrees(acos(dot / (|a| |b|))) in hundredths of a degree, for the
\* cosines with an exact angle (every pair of edges of the mesh has one).
AcosDegrees(dot, n1, n2) ==
    CASE dot = 0                     -> 9000
      [] dot * dot = n1 * n2         -> IF dot > 0 THEN 0 ELSE 18000
      [] 2 * dot * dot = n1 * n2     -> IF dot > 0 THEN 4500 ELSE 13500
      [] 4 * dot * dot = n1 * n2     -> IF dot > 0 THEN 6000 ELSE 12000
      [] 4 * dot * dot = 3 * n1 * n2 -> IF dot > 0 THEN 3000 ELSE 15000

\* Vector.angle(other) with no fallback: a zero-length vector raises
\* ValueError.
VectorAngle(vec1, vec2) ==
    IF Dot(vec1, vec1) = 0 \/ Dot(vec2, vec2) = 0
    THEN [raised |-> TRUE, angle |-> 0]
    ELSE [raised |-> FALSE,
          angle |-> AcosDegrees(Dot(vec1, vec2), Dot(vec1, vec1), Dot(vec2, vec2))]

\* "{x:.2f}": thousandths rounded to hundredths.
Format2(x) == (x + 5) \div 10

EmptyStr == [kind |-> "empty", axis |-> "", mag |-> 0, out |-> 0, unit |-> ""]

\* f"{distance:.2f} {unit}"
FormatLength(distance, unit) ==
    [kind |-> "length", axis |-> "", mag |-> Format2(distance), out |-> 0, unit |-> unit]

\* f"{angle_in:.2f}° | {angle_out:.2f}°" (the angles are exact hundredths)
FormatAngle(angle_in, angle_out) ==
    [kind |-> "angle", axis |-> "", mag |-> angle_in, out |-> angle_out, unit |-> ""]

\* f"{self.axis}: {distance:.2f} {unit}"
FormatAxis(axis, distance, unit) ==
    [kind |-> "axis", axis |-> axis, mag |-> Format2(distance), out |-> 0, unit |-> unit]

----------------------------------------------------------------------------
(* Unit conversion.                                                        *)

\* 3.28084 feet per metre, as FeetNum / FeetDen.
FeetNum == 328084
FeetDen == 100000

\* Faulty variant: the factor is applied whatever the unit system.
convert_distance_always(distance, system) ==
    (distance * FeetNum) \div FeetDen

convert_distance(distance, system) ==
    IF system = "IMPERIAL"
    THEN (distance * FeetNum) \div FeetDen
    ELSE distance

get_unit_suffix(system) ==
    IF system = "IMPERIAL" THEN "ft" ELSE "m"

----------------------------------------------------------------------------
(* TapeMeasureOperator.is_contiguous                                       *)

\* Faulty variant: adjacency by coordinate equality instead of vertex identity.
SharesVertByCo(e, current) ==
    \E i \in 1..2 : \E j \in 1..2 : VertCo[e[i]] = VertCo[current[j]]

\* any(v in current.verts for v in e.verts)
SharesVert(e, current) ==
    \E i \in 1..2 : \E j \in 1..2 : e[i] = current[j]

\* Faulty variant: the top of the stack is read but not removed.
LoopStepPeek(es, vis, stk) ==
    LET current == stk[Len(stk)]
    IN  IF current \in vis
        THEN [visited |-> vis, stack |-> stk]
        ELSE LET vis2 == vis \cup {current}
                 connected_edges ==
                     SelectSeq(es, LAMBDA e : e \notin vis2 /\ SharesVert(e, current))
             IN  [visited |-> vis2, stack |-> stk \o connected_edges]

\* One iteration of "while stack:" (lines 42-52).
LoopStep(es, vis, stk) ==
    LET current == stk[Len(stk)]
        rest    == SubSeq(stk, 1, Len(stk) - 1)
    IN  IF current \in vis
        THEN [visited |-> vis, stack |-> rest]
        ELSE LET vis2 == vis \cup {current}
                 connected_edges ==
                     SelectSeq(es, LAMBDA e : e \notin vis2 /\ SharesVert(e, current))
             IN  [visited |-> vis2, stack |-> rest \o connected_edges]

RECURSIVE Traverse(_, _, _)
Traverse(es, vis, stk) ==
    IF stk = <<>> THEN vis
    ELSE LET s == LoopStep(es, vis, stk) IN Traverse(es, s.visited, s.stack)

\* Faulty variant: every multi-edge selection counts as contiguous.
is_contiguous_always(es) == Len(es) >= 1

is_contiguous(es) ==
    Cardinality(Traverse(es, {}, <<es[1]>>)) = Len(es)

----------------------------------------------------------------------------
(* The traversal loop of is_contiguous, one iteration per step.            *)

\* Every list of distinct edges, in any order, of 1..MaxSelected edges.
EdgeLists ==
    {s \in UNION {[1..n -> EdgeSet] : n \in 1..MaxSelected} :
        \A i, j \in DOMAIN s : i # j => s[i] # s[j]}

NoCtx == [select_mode |-> <<FALSE, FALSE, FALSE>>, obj |-> "UNREAD", mode |-> "UNREAD",
          verts |-> {}, edges |-> {}, system |-> "UNREAD",
          cursor |-> <<0, 0, 0>>, axis |-> "UNREAD"]

PropsIdle ==
    /\ result = EmptyStr
    /\ last_mode = "NONE"
    /\ op = "none"
    /\ ctx = NoCtx
    /\ ret = "NONE"
    /\ report = ""
    /\ seen_empty = TRUE
    /\ since_handler = "none"

InitLoop ==
    /\ PropsIdle
    /\ edges \in EdgeLists
    /\ visited = {}
    /\ stack = <<edges[1]>>
    /\ pc = "loop"
    /\ contiguous = FALSE

LoopIter ==
    /\ pc = "loop"
    /\ stack # <<>>
    /\ LET s == LoopStep(edges, visited, stack)
       IN  /\ visited' = s.visited
           /\ stack' = s.stack
    /\ UNCHANGED <<edges, pc, contiguous>>
    /\ UNCHANGED propVars

LoopReturn ==
    /\ pc = "loop"
    /\ stack = <<>>
    /\ contiguous' = (Cardinality(visited) = Len(edges))
    /\ pc' = "done"
    /\ UNCHANGED <<edges, visited, stack>>
    /\ UNCHANGED propVars

NextLoop == LoopIter \/ LoopReturn

\* The loop is synchronous code: once entered it runs to completion.
SpecLoop == InitLoop /\ [][NextLoop]_vars /\ WF_vars(NextLoop)

----------------------------------------------------------------------------
(* What a request reads of the host: the selection mode, the active object *)
(* and the context mode, the selection of the edit mesh, the unit system,  *)
(* the 3D cursor and the operator's axis.  A field the request never reads *)
(* or never uses on its path is left at its NoCtx value.                   *)

\* tool_settings.mesh_select_mode (vertex, edge, face): never all FALSE.
SelectModes == {<<TRUE, FALSE, FALSE>>, <<TRUE, TRUE, FALSE>>,
                <<FALSE, TRUE, FALSE>>, <<FALSE, FALSE, TRUE>>}

UnitSystems == {"METRIC", "IMPERIAL"}

CursorLocations == {<<0, 0, 0>>, <<2, 1, 3>>}

Axes == {"X", "Y", "Z"}

Selections(S) == {x \in SUBSET S : Cardinality(x) <= MaxSelected}

Ctx(sm, ob, md, vs, es, sys, cur, ax) ==
    [select_mode |-> sm, obj |-> ob, mode |-> md, verts |-> vs,
     edges |-> es, system |-> sys, cursor |-> cur, axis |-> ax]

\* The context mode and the selected vertices of the mesh in edit mode.
VertexSelections ==
    {<<"OBJECT", {}>>, <<"EDIT_CURVE", {}>>}
    \cup {<<"EDIT_MESH", vs>> : vs \in Selections(MeshVerts)}

\* The active object, the context mode and the mesh's selected edges.
EdgeSelections ==
    {<<"NONE", "UNREAD", {}>>, <<"CURVE", "UNREAD", {}>>, <<"MESH", "OBJECT", {}>>}
    \cup {<<"MESH", "EDIT_MESH", es>> : es \in Selections(EdgeSet)}

CurrentMode(select_mode) ==
    IF select_mode[1] THEN "VERTEX" ELSE IF select_mode[2] THEN "EDGE" ELSE "NONE"

TapeInputs ==
    UNION {
        CASE CurrentMode(sm) = "VERTEX" ->
                UNION {{Ctx(sm, "UNREAD", v[1], v[2], {}, sys, <<0, 0, 0>>, "UNREAD") :
                           sys \in IF Cardinality(v[2]) = 2 THEN UnitSystems ELSE {"UNREAD"}} :
                       v \in VertexSelections}
          [] CurrentMode(sm) = "EDGE" ->
                UNION {{Ctx(sm, e[1], e[2], {}, e[3], sys, <<0, 0, 0>>, "UNREAD") :
                           sys \in IF e[3] # {} THEN UnitSystems ELSE {"UNREAD"}} :
                       e \in EdgeSelections}
          [] OTHER ->
                {Ctx(sm, "UNREAD", "UNREAD", {}, {}, "UNREAD", <<0, 0, 0>>, "UNREAD")}
        : sm \in SelectModes}

AngleInputs ==
    {Ctx(<<FALSE, FALSE, FALSE>>, e[1], e[2], {}, e[3], "UNREAD", <<0, 0, 0>>, "UNREAD") :
        e \in EdgeSelections}

CursorInputs ==
    UNION {{Ctx(<<FALSE, FALSE, FALSE>>, "UNREAD", v[1], v[2], {}, a[1], a[2], a[3]) :
               a \in IF Cardinality(v[2]) = 1
                     THEN UnitSystems \X CursorLocations \X Axes
                     ELSE {<<"UNREAD", <<0, 0, 0>>, "UNREAD">>}} :
           v \in VertexSelections}

HandlerInputs ==
    {Ctx(<<FALSE, FALSE, FALSE>>, "UNREAD", md, {}, {}, "UNREAD", <<0, 0, 0>>, "UNREAD") :
        md \in {"OBJECT", "EDIT_CURVE", "EDIT_MESH"}}

----------------------------------------------------------------------------
(* The operators.  props is [result, last_mode]; an execute returns the    *)
(* new props, the returned status ("EXCEPTION" when a Python exception     *)
(* leaves execute) and the reported message.                               *)

Props(res, lm) == [result |-> res, last_mode |-> lm]

Outcome(props, status, message) ==
    [result |-> props.result, last_mode |-> props.last_mode,
     ret |-> status, report |-> message]

\* self.report({'ERROR'}, message); return {'CANCELLED'}
Cancelled(props, message) == Outcome(props, "CANCELLED", message)

\* An exception leaves execute: nothing is reported, nothing returned.
Raised(props) == Outcome(props, "EXCEPTION", "")

\* props.result = value; return {'FINISHED'}
Finished(props, value) ==
    Outcome(Props(value, props.last_mode), "FINISHED", "")

\* Faulty variant: "if v.select" is missing.
get_selected_vertices_all(c) ==
    IF c.mode = "EDIT_MESH"
    THEN [k \in 1..Len(VertCo) |-> World(VertCo[k])]
    ELSE <<>>

\* The world positions of the selected vertices of the meshes in edit mode.
get_selected_vertices(c) ==
    IF c.mode = "EDIT_MESH"
    THEN LET idx == SelectSeq([i \in 1..Len(VertCo) |-> i], LAMBDA i : i \in c.verts)
         IN  [k \in 1..Len(idx) |-> World(VertCo[idx[k]])]
    ELSE <<>>

\* [e for e in bm.edges if e.select]
selected_edges_of(c) == SelectSeq(MeshEdges, LAMBDA e : e \in c.edges)

RECURSIVE SumLengths(_)
\* sum(e.calc_length() for e in selected_edges)
SumLengths(es) ==
    IF es = <<>> THEN 0 ELSE calc_length(Head(es)) + SumLengths(Tail(es))

\* Faulty variant: the result is cleared on every request.
ModeResetAlways(props, current_mode) ==
    Props(EmptyStr, current_mode)

\* Lines 78-80.
ModeReset(props, current_mode) ==
    IF props.last_mode # current_mode
    THEN Props(EmptyStr, current_mode)
    ELSE props

\* Lines 85-94.
TapeVertex(props, c) ==
    LET selected_verts == get_selected_vertices(c)
    IN  IF Len(selected_verts) = 2
        THEN LET distance == VecLength(Sub(selected_verts[1], selected_verts[2]))
             IN  Finished(props, FormatLength(convert_distance(distance, c.system),
                                              get_unit_suffix(c.system)))
        ELSE Cancelled(props, "Invalid selection: Select exactly two vertices")

\* Lines 97-121.
TapeEdge(props, c) ==
    IF c.obj = "NONE" \/ c.obj # "MESH"
    THEN Cancelled(props, "Active object is not a mesh")
    ELSE IF c.mode # "EDIT_MESH"
    THEN Raised(props)          \* bmesh.from_edit_mesh: ValueError
    ELSE LET selected_edges == selected_edges_of(c)
         IN  IF Len(selected_edges) = 1
             THEN Finished(props,
                      FormatLength(convert_distance(calc_length(selected_edges[1]), c.system),
                                   get_unit_suffix(c.system)))
             ELSE IF Len(selected_edges) > 1 /\ is_contiguous(selected_edges)
             THEN Finished(props,
                      FormatLength(convert_distance(SumLengths(selected_edges), c.system),
                                   get_unit_suffix(c.system)))
             ELSE IF Len(selected_edges) > 1
             THEN Cancelled(props, "Invalid selection: Edges must form a contiguous group")
             ELSE Cancelled(props,
                      "Invalid selection: Select a single edge or contiguous edge group")

\* TapeMeasureOperator.execute
TapeMeasure_execute(props, c) ==
    LET current_mode == CurrentMode(c.select_mode)
        p == ModeReset(props, current_mode)
    IN  IF current_mode = "VERTEX" THEN TapeVertex(p, c)
        ELSE IF current_mode = "EDGE" THEN TapeEdge(p, c)
        ELSE Cancelled(p, "Invalid selection mode: Use Vertex or Edge mode")

\* AngleMeasureOperator.calculate_angle
calculate_angle(edge1, edge2) ==
    LET vec1 == Sub(VertCo[edge1[2]], VertCo[edge1[1]])
        vec2 == Sub(VertCo[edge2[2]], VertCo[edge2[1]])
        a    == VectorAngle(vec1, vec2)
    IN  [raised |-> a.raised, angle_in |-> a.angle, angle_out |-> 36000 - a.angle]

\* AngleMeasureOperator.execute
AngleMeasure_execute(props, c) ==
    IF c.obj = "NONE" \/ c.obj # "MESH"
    THEN Cancelled(props, "Active object is not a mesh")
    ELSE IF c.mode # "EDIT_MESH"
    THEN Raised(props)          \* bmesh.from_edit_mesh: ValueError
    ELSE LET selected_edges == selected_edges_of(c)
         IN  IF Len(selected_edges) # 2
             THEN Cancelled(props, "Invalid selection: Select exactly two edges")
             ELSE LET a == calculate_angle(selected_edges[1], selected_edges[2])
                  IN  IF a.raised
                      THEN Raised(props)      \* Vector.angle: ValueError
                      ELSE Finished(props, FormatAngle(a.angle_in, a.angle_out))

\* Faulty variant: abs() is missing.
AxisDistanceSigned(selected_vert, cursor_location, axis, system) ==
    LET axis_index == CASE axis = "X" -> 1 [] axis = "Y" -> 2 [] axis = "Z" -> 3
        distance   == 1000 * (selected_vert[axis_index] - cursor_location[axis_index])
    IN  convert_distance(distance, system)

\* Lines 201-203, in thousandths.
AxisDistance(selected_vert, cursor_location, axis, system) ==
    LET axis_index == CASE axis = "X" -> 1 [] axis = "Y" -> 2 [] axis = "Z" -> 3
        distance   == 1000 * (selected_vert[axis_index] - cursor_location[axis_index])
    IN  convert_distance(Abs(distance), system)

\* DistanceFromCursorOperator.execute
DistanceFromCursor_execute(props, c) ==
    LET selected_verts == get_selected_vertices(c)
    IN  IF Len(selected_verts) # 1
        THEN Cancelled(props, "Invalid selection: Select exactly one vertex")
        ELSE Finished(props,
                 FormatAxis(c.axis,
                            AxisDistance(selected_verts[1], c.cursor, c.axis, c.system),
                            get_unit_suffix(c.system)))

\* Faulty variant: the handler clears the result and keeps the remembered mode.
clear_result_keep_mode(props, mode) ==
    IF mode = "EDIT_MESH" THEN Props(EmptyStr, props.last_mode) ELSE props

\* The depsgraph_update_post handler.
clear_result_on_edit_mode(props, mode) ==
    IF mode = "EDIT_MESH" THEN Props(EmptyStr, "NONE") ELSE props

----------------------------------------------------------------------------
(* The requests.  Two history variables: seen_empty tells whether          *)
(* props.result was "" when the last tape-measure request reached line 82  *)
(* (TRUE after any other step); since_handler tells whether this state     *)
(* follows the handler's reset with no tape-measure request since          *)
(* ("fired"), or is the outcome of the first tape-measure request after it *)
(* ("first_tape").                                                         *)

Init ==
    /\ PropsIdle
    /\ edges = <<>>
    /\ visited = {}
    /\ stack = <<>>
    /\ pc = "idle"
    /\ contiguous = FALSE

Apply(name, c, o) ==
    /\ result' = o.result
    /\ last_mode' = o.last_mode
    /\ op' = name
    /\ ctx' = c
    /\ ret' = o.ret
    /\ report' = o.report
    /\ UNCHANGED loopVars

TapeMeasure ==
    \E c \in TapeInputs :
        /\ Apply("tape", c, TapeMeasure_execute(Props(result, last_mode), c))
        /\ seen_empty' = (ModeReset(Props(result, last_mode),
                                    CurrentMode(c.select_mode)).result = EmptyStr)
        /\ since_handler' = IF since_handler = "fired" THEN "first_tape" ELSE "none"

AngleMeasure ==
    \E c \in AngleInputs :
        /\ Apply("angle", c, AngleMeasure_execute(Props(result, last_mode), c))
        /\ seen_empty' = TRUE
        /\ since_handler' = IF since_handler = "fired" THEN "fired" ELSE "none"

DistanceFromCursor ==
    \E c \in CursorInputs :
        /\ Apply("cursor", c, DistanceFromCursor_execute(Props(result, last_mode), c))
        /\ seen_empty' = TRUE
        /\ since_handler' = IF since_handler = "fired" THEN "fired" ELSE "none"

ClearResultOnEditMode ==
    \E c \in HandlerInputs :
        LET p == clear_result_on_edit_mode(Props(result, last_mode), c.mode)
        IN  /\ Apply("handler", c, Outcome(p, "NONE", ""))
            /\ seen_empty' = TRUE
            /\ since_handler' = IF c.mode = "EDIT_MESH" THEN "fired"
                                ELSE IF since_handler = "fired" THEN "fired" ELSE "none"

Next == TapeMeasure \/ AngleMeasure \/ DistanceFromCursor \/ ClearResultOnEditMode

Spec == Init /\ [][Next]_vars

----------------------------------------------------------------------------
(* Connectivity, stated without the traversal.                             *)

Adjacent(a, b) == {a[1], a[2]} \cap {b[1], b[2]} # {}

\* E is one connected component: no cut of E separates it.
Connected(E) ==
    \A S \in SUBSET E :
        (S # {} /\ S # E) => \E a \in S : \E b \in E \ S : Adjacent(a, b)

RECURSIVE Component(_, _)
Component(S, E) ==
    LET T == S \cup {b \in E : \E a \in S : Adjacent(a, b)}
    IN  IF T = S THEN S ELSE Component(T, E)

\* C1: when is_contiguous returns, it returns TRUE exactly when the edges
\* form one connected component under "share a vertex, by identity"; a
\* single edge is contiguous, two edges with no common vertex are not.
C1_Contiguous ==
    pc = "done" =>
        /\ contiguous <=> Connected(Range(edges))
        /\ Len(edges) = 1 => contiguous
        /\ (Len(edges) = 2 /\ ~Adjacent(edges[1], edges[2])) => ~contiguous

\* Two edges that touch in space but share no vertex are reported
\* non-contiguous.
C1_Witness ==
    /\ pc = "done"
    /\ Len(edges) = 2
    /\ ~contiguous
    /\ \E i, j \in 1..2 : VertCo[edges[1][i]] = VertCo[edges[2][j]]

\* An iteration of the loop.
C10_IterOK ==
    (pc = "loop" /\ stack # <<>>) =>
        LET current == stack[Len(stack)]
        IN  \/ /\ current \notin visited
               /\ visited' = visited \cup {current}
               /\ Len(stack') >= Len(stack) - 1
            \/ /\ current \in visited
               /\ visited' = visited
               /\ stack' = SubSeq(stack, 1, Len(stack) - 1)

\* The visited edges are input edges reachable from the first edge.
C10_VisitedInv ==
    /\ visited \subseteq Range(edges)
    /\ visited \subseteq Component({edges[1]}, Range(edges))

\* C10: the loop terminates; an iteration either marks the not-yet-visited
\* top of the stack (once: it is not visited before) or discards a top that
\* is already visited; the visited edges are input edges reachable from
\* the first edge.
C10_Terminates ==
    /\ [][C10_IterOK]_vars
    /\ []C10_VisitedInv
    /\ <>(pc = "done")

\* An edge sits on the stack twice, one copy already visited.
C10_Witness ==
    /\ pc = "loop"
    /\ \E i, j \in 1..Len(stack) : i < j /\ stack[i] = stack[j]
    /\ visited # {}

----------------------------------------------------------------------------
(* The requests' properties.                                               *)

Requests == {"tape", "angle", "cursor"}

RECURSIVE SumOfLengths(_)
\* The sum of the edges' lengths, in thousandths.
SumOfLengths(E) ==
    IF E = {} THEN 0
    ELSE LET e == CHOOSE x \in E : TRUE
         IN  VecLength(Sub(VertCo[e[1]], VertCo[e[2]])) + SumOfLengths(E \ {e})

AxisIndex(a) == CASE a = "X" -> 1 [] a = "Y" -> 2 [] a = "Z" -> 3

\* The raw length a finished tape-measure or distance-from-cursor request
\* measured, in thousandths.
RawLength ==
    IF op = "cursor"
    THEN LET v == CHOOSE x \in ctx.verts : TRUE
             a == MatrixWorld * VertCo[v][AxisIndex(ctx.axis)]
             b == ctx.cursor[AxisIndex(ctx.axis)]
         IN  1000 * (IF a >= b THEN a - b ELSE b - a)
    ELSE IF CurrentMode(ctx.select_mode) = "VERTEX"
    THEN LET v == CHOOSE x \in ctx.verts : TRUE
             w == CHOOSE x \in ctx.verts : x # v
         IN  VecLength(Sub(World(VertCo[v]), World(VertCo[w])))
    ELSE SumOfLengths(ctx.edges)

\* A tape-measure step in Edge mode over two or more selected edges.
C2_Step ==
    (op' = "tape" /\ CurrentMode(ctx'.select_mode) = "EDGE" /\ Cardinality(ctx'.edges) >= 2) =>
        IF Connected(ctx'.edges)
        THEN /\ ret' = "FINISHED"
             /\ result' = FormatLength(convert_distance(SumOfLengths(ctx'.edges), ctx'.system),
                                       get_unit_suffix(ctx'.system))
        ELSE /\ ret' = "CANCELLED"
             /\ report' = "Invalid selection: Edges must form a contiguous group"
             /\ result' \in {result, EmptyStr}

\* C2: in Edge mode with two or more selected edges, a tape-measure request
\* finishes, writing the summed length, exactly when the edges are
\* contiguous; otherwise it is cancelled with the contiguity error and the
\* result is what it was, or empty: never a sum.
C2_EdgeSum == [][C2_Step]_vars

\* Three selected edges, one of them apart from the other two: cancelled.
C2_Witness ==
    /\ op = "tape"
    /\ CurrentMode(ctx.select_mode) = "EDGE"
    /\ Cardinality(ctx.edges) = 3
    /\ ~Connected(ctx.edges)
    /\ ret = "CANCELLED"

\* A tape-measure step in Vertex mode.
C3_Step ==
    (op' = "tape" /\ CurrentMode(ctx'.select_mode) = "VERTEX") =>
        IF Cardinality(ctx'.verts) = 2
        THEN /\ ret' = "FINISHED"
             /\ result'.kind = "length"
        ELSE /\ ret' = "CANCELLED"
             /\ report' = "Invalid selection: Select exactly two vertices"
             /\ result' \in {result, EmptyStr}

\* C3: in Vertex mode a tape-measure request finishes with a distance
\* exactly when two vertices are selected; with any other count it is
\* cancelled with the two-vertices error and writes no measurement.
C3_VertexPair == [][C3_Step]_vars

C3_Witness ==
    /\ op = "tape"
    /\ CurrentMode(ctx.select_mode) = "VERTEX"
    /\ Cardinality(ctx.verts) = 3
    /\ ret = "CANCELLED"

\* C4: an angle request over two edges, one of zero length, ends in an
\* error value (cancelled, with a reported message), not in an exception.
C4_DegenerateAngleIsError ==
    (/\ op = "angle"
     /\ Cardinality(ctx.edges) = 2
     /\ \E e \in ctx.edges : VertCo[e[1]] = VertCo[e[2]])
    => (ret = "CANCELLED" /\ report # "" /\ ret # "EXCEPTION")

\* A step of a request that ends in an error.
C5_Step ==
    (op' \in Requests /\ ret' \in {"CANCELLED", "EXCEPTION"}) =>
        result' = IF op' = "tape" /\ CurrentMode(ctx'.select_mode) # last_mode
                  THEN EmptyStr
                  ELSE result

\* C5: a request that ends in an error leaves the result as it was, except
\* a tape-measure request whose mode differs from the remembered mode,
\* which leaves it empty.
C5_ErrorKeepsResult == [][C5_Step]_vars

\* A cancelled tape-measure request in the remembered mode, an earlier
\* measurement still displayed.
C5_Witness ==
    /\ op = "tape"
    /\ ret = "CANCELLED"
    /\ result # EmptyStr

\* C6: an angle request finishes exactly when two edges are selected.
C6_AngleIffTwoEdges ==
    op = "angle" => (ret = "FINISHED" <=> Cardinality(ctx.edges) = 2)

\* C7: a distance-from-cursor request finishes exactly when one vertex is
\* selected; the magnitude is the absolute difference of vertex and cursor
\* in the operator's axis, the same with the two swapped, never negative;
\* with any other count the request is cancelled with an error.
C7_AxisDistance ==
    op = "cursor" =>
        IF Cardinality(ctx.verts) = 1
        THEN LET v == CHOOSE x \in ctx.verts : TRUE
                 a == 1000 * MatrixWorld * VertCo[v][AxisIndex(ctx.axis)]
                 b == 1000 * ctx.cursor[AxisIndex(ctx.axis)]
             IN  /\ ret = "FINISHED"
                 /\ result.kind = "axis"
                 /\ result.axis = ctx.axis
                 /\ result.mag >= 0
                 /\ result.mag = Format2(convert_distance(IF a >= b THEN a - b ELSE b - a,
                                                          ctx.system))
        ELSE /\ ret = "CANCELLED"
             /\ report = "Invalid selection: Select exactly one vertex"

\* The vertex lies below the cursor on the axis, the magnitude is positive.
C7_Witness ==
    /\ op = "cursor"
    /\ ret = "FINISHED"
    /\ result.mag > 0
    /\ \E v \in ctx.verts :
           MatrixWorld * VertCo[v][AxisIndex(ctx.axis)] < ctx.cursor[AxisIndex(ctx.axis)]

\* C8: a finished length measurement displays the raw length under Metric,
\* with "m", and the raw length times 3.28084 under Imperial, with "ft":
\* the conversion is applied once, to the final length.
C8_ConvertOnce ==
    (op \in {"tape", "cursor"} /\ ret = "FINISHED") =>
        /\ ctx.system = "METRIC" =>
              (result.mag = Format2(RawLength) /\ result.unit = "m")
        /\ ctx.system = "IMPERIAL" =>
              (result.mag = Format2((RawLength * 328084) \div 100000) /\ result.unit = "ft")

\* A summed, contiguous edge selection displayed in feet.
C8_Witness ==
    /\ op = "tape"
    /\ ret = "FINISHED"
    /\ CurrentMode(ctx.select_mode) = "EDGE"
    /\ Cardinality(ctx.edges) >= 2
    /\ ctx.system = "IMPERIAL"
    /\ result.mag > 0

\* The remembered mode: a tape-measure request starts from an empty result
\* when its mode differs from the remembered one and from the result as it
\* was otherwise, and leaves its own mode remembered; the angle and
\* distance-from-cursor requests keep the remembered mode; the handler, in
\* edit mode, clears the result and remembers NONE.
C9_Core ==
    /\ op' = "tape" =>
          /\ last_mode' = CurrentMode(ctx'.select_mode)
          /\ seen_empty' <=> (last_mode # CurrentMode(ctx'.select_mode) \/ result = EmptyStr)
          /\ ret' = "CANCELLED" =>
                result' = IF last_mode # CurrentMode(ctx'.select_mode) THEN EmptyStr ELSE result
    /\ op' \in {"angle", "cursor"} => last_mode' = last_mode
    /\ (op' = "handler" /\ ctx'.mode = "EDIT_MESH") =>
          (result' = EmptyStr /\ last_mode' = "NONE")

\* C9, as claimed: the remembered mode behaves as in C9_Core, and moreover the first tape-measure request after the handler
\* fires always starts from an empty result.
C9_FirstTapeStartsEmpty ==
    [][C9_Core /\ (since_handler' = "first_tape" => seen_empty')]_vars

\* C9, amended: the remembered mode behaves as in C9_Core, and moreover the first tape-measure request after the handler
\* fires starts from an empty result unless it is made in mode NONE with a
\* result displayed (written by an angle or distance-from-cursor request in
\* between).
C9_RememberedMode ==
    [][C9_Core /\ (since_handler' = "first_tape" =>
                      (seen_empty' \/ (CurrentMode(ctx'.select_mode) = "NONE"
                                       /\ result # EmptyStr)))]_vars

\* The first tape-measure request after the handler, in Vertex or Edge
\* mode, finished from an empty result.
C9_Witness ==
    /\ since_handler = "first_tape"
    /\ op = "tape"
    /\ seen_empty
    /\ ret = "FINISHED"

====
